---- MODULE Spec2Model ----
(***************************************************************************)
(* Model of the AI-assistant orchestration core of kliniq-api:             *)
(*   - the action-call extractor   (common/llm/tool_executor.py)           *)
(*   - the action dispatcher       (common/llm/tool_executor.py)           *)
(*   - the chat orchestrator       (modules/dashboard/dashboard_service.py)*)
(*   - the transcript cache        (modules/messages/messages_service.py)  *)
(*                                                                         *)
(* Text is modelled as a sequence of tokens.  A token is a delimiter, a    *)
(* brace, a comma, a whitespace character, a character of plain text, or   *)
(* one atomic piece of JSON (a "key":"value" member, a key, or null).      *)
(***************************************************************************)
EXTENDS Integers, Sequences, FiniteSets, TLC

VARIABLES
    \* --- extractor (parse_tool_calls) ---
    reply_blocks,       \* the pieces (text, blocks) the raw model text is made of
    response,           \* raw model text handed to parse_tool_calls
    cleaned_response,   \* first component of its result
    tool_calls,         \* second component of its result
    parse_pc,           \* "start" before the call, "parsed" after it
    \* --- transcript cache (transcribe_message) ---
    original_language,  \* Message.original_language as persisted (NONE = NULL)
    transcripts,        \* Message.transcripts as persisted: language key -> text
    request_no,         \* number of transcribe_message requests served so far
    last_request,       \* arguments of the latest request
    last_result,        \* dict returned by the latest request
    external_calls,     \* speech / translation calls issued by the latest request
    speech_count,       \* speech calls answered so far (identifies their outputs)
    \* --- chat orchestrator and dispatcher (process_chat) ---
    triage_chats,         \* committed rows of table triage_chats; the id is the index
    appointment_requests, \* committed rows of table appointment_requests
    patient_hospitals,    \* committed rows of table patient_hospitals: <<patient, hospital>>
    turn_no,              \* number of POST /chat requests served so far
    last_turn,            \* arguments and outcome of the latest request
    \* --- context assembly (process_chat / LLMService.chat) ---
    ctx,                \* one call: its inputs, its position, the messages sent
    \* --- concurrent transcribe_message requests ---
    inflight            \* per request: position, arguments, the row as loaded, outcome

parse_vars == <<reply_blocks, response, cleaned_response, tool_calls, parse_pc>>

cache_vars == <<original_language, transcripts, request_no, last_request,
                last_result, external_calls, speech_count>>

chat_vars == <<triage_chats, appointment_requests, patient_hospitals, turn_no, last_turn>>

ctx_vars == <<ctx>>

race_vars == <<inflight>>

vars == <<parse_vars, cache_vars, chat_vars, ctx_vars, race_vars>>

----------------------------------------------------------------------------
(* Tokens *)

OPEN  == "<TOOL_CALL>"
CLOSE == "</TOOL_CALL>"
LB    == "{"
RB    == "}"
COMMA == ","
WS    == " "
TXT   == "txt"
NULL  == "null"
PARAMETERS == "parameters:"

\* "key":"value" members of a JSON object
ToolMembers   == {"tool:request_appointment", "tool:create_triage", "tool:send_email"}
NameMembers   == {"name:create_triage"}
ParamMembers  == {"reason:headache", "reason:", "symptoms:fever", "symptoms:",
                  "urgency:asap", "urgency:null"}
PairTokens    == ToolMembers \cup NameMembers \cup ParamMembers

NONE == "NONE"

\* Python truthiness of an optional string
Truthy(str) == str # NONE /\ str # ""

\* str.lower() on the strings the model uses
Lower(str) ==
    CASE str = "English" -> "english"
      [] str = "Yoruba"  -> "yoruba"
      [] str = "Hausa"   -> "hausa"
      [] str = "Igbo"    -> "igbo"
      [] str = "French"  -> "french"
      [] OTHER           -> str

\* value of the "tool" key carried by a member token
ToolOf(tok) ==
    CASE tok = "tool:request_appointment" -> "request_appointment"
      [] tok = "tool:create_triage"       -> "create_triage"
      [] tok = "tool:send_email"          -> "send_email"
      [] OTHER                            -> NONE

\* value of the "reason" / "symptoms" key carried by a member token
ReasonOf(tok) ==
    CASE tok = "reason:headache" -> "headache"
      [] tok = "reason:"         -> ""
      [] OTHER                   -> NONE

SymptomsOf(tok) ==
    CASE tok = "symptoms:fever" -> "fever"
      [] tok = "symptoms:"      -> ""
      [] OTHER                  -> NONE

\* value of the "urgency" key: a string, or NULL for "urgency": null
UrgencyOf(tok) ==
    CASE tok = "urgency:asap" -> "asap"
      [] tok = "urgency:null" -> NULL
      [] OTHER                -> NONE

----------------------------------------------------------------------------
(* json.loads on a token sequence *)

StripWs(seq) == SelectSeq(seq, LAMBDA t : t # WS)

\* the top-level comma-separated pieces of seq; braces nest
RECURSIVE SplitTop(_, _, _, _)
SplitTop(seq, i, depth, cur) ==
    IF i > Len(seq) THEN <<cur>>
    ELSE LET t == seq[i] IN
         IF t = COMMA /\ depth = 0
         THEN <<cur>> \o SplitTop(seq, i + 1, 0, <<>>)
         ELSE SplitTop(seq, i + 1,
                       IF t = LB THEN depth + 1
                       ELSE IF t = RB THEN depth - 1 ELSE depth,
                       Append(cur, t))

Pieces(inner) == IF inner = <<>> THEN <<>> ELSE SplitTop(inner, 1, 0, <<>>)

IsBraced(seq) == Len(seq) >= 2 /\ seq[1] = LB /\ seq[Len(seq)] = RB
Inner(seq)    == SubSeq(seq, 2, Len(seq) - 1)

\* an object all of whose members are "key":"value" pairs
IsFlatObject(seq) ==
    /\ IsBraced(seq)
    /\ \A k \in 1..Len(Pieces(Inner(seq))) :
          LET p == Pieces(Inner(seq))[k] IN Len(p) = 1 /\ p[1] \in PairTokens

SetMax(S) == CHOOSE m \in S : \A n \in S : n <= m

\* value a member token gives to a key, NONE when it is a member of another key
ValueOf(key, tok) ==
    CASE key = "tool"     -> ToolOf(tok)
      [] key = "reason"   -> ReasonOf(tok)
      [] key = "symptoms" -> SymptomsOf(tok)
      [] key = "urgency"  -> UrgencyOf(tok)
      [] OTHER            -> NONE

\* last value of a key among the pair members of an object (json: last wins)
LastVal(pieces, key) ==
    LET hits == {k \in 1..Len(pieces) : Len(pieces[k]) = 1 /\ ValueOf(key, pieces[k][1]) # NONE}
    IN  IF hits = {} THEN NONE ELSE ValueOf(key, pieces[SetMax(hits)][1])

NoParams     == [kind |-> "missing", reason |-> NONE, symptoms |-> NONE, urgency |-> NONE]
NullParams   == [kind |-> "null",    reason |-> NONE, symptoms |-> NONE, urgency |-> NONE]
DictParams(obj) ==
    LET ps == Pieces(Inner(obj)) IN
    [kind |-> "dict",
     reason   |-> LastVal(ps, "reason"),
     symptoms |-> LastVal(ps, "symptoms"),
     urgency  |-> LastVal(ps, "urgency")]

\* a member of the top-level object: a pair, or "parameters": null / {..}
IsMember(p) ==
    \/ Len(p) = 1 /\ p[1] \in PairTokens
    \/ Len(p) = 2 /\ p[1] = PARAMETERS /\ p[2] = NULL
    \/ Len(p) >= 3 /\ p[1] = PARAMETERS /\ IsFlatObject(Tail(p))

\* value of the last "parameters" member, NoParams when there is none
RECURSIVE LastParams(_, _)
LastParams(pieces, k) ==
    IF k = 0 THEN NoParams
    ELSE LET p == pieces[k] IN
         IF Len(p) >= 2 /\ p[1] = PARAMETERS
         THEN IF p[2] = NULL THEN NullParams ELSE DictParams(Tail(p))
         ELSE LastParams(pieces, k - 1)

\* json.loads(match): ok = FALSE stands for JSONDecodeError
JsonLoads(match) ==
    LET s  == StripWs(match)
        ps == Pieces(Inner(s))
        ok == IsBraced(s) /\ \A k \in 1..Len(ps) : IsMember(ps[k])
    IN  IF ~ok THEN [ok |-> FALSE, tool |-> NONE, parameters |-> NoParams]
        ELSE [ok |-> TRUE,
              tool |-> LastVal(ps, "tool"),
              parameters |-> LastParams(ps, Len(ps))]

----------------------------------------------------------------------------
(* TOOL_CALL_PATTERN = <TOOL_CALL>\s*(\{.*?\})\s*</TOOL_CALL>  (DOTALL) *)

\* first index >= i that does not hold whitespace (Len+1 when there is none)
RECURSIVE SkipWs(_, _)
SkipWs(s, i) == IF i <= Len(s) /\ s[i] = WS THEN SkipWs(s, i + 1) ELSE i

\* \}\s*</TOOL_CALL> matches at k: index of the closing delimiter, else 0
TailAt(s, k) ==
    IF k <= Len(s) /\ s[k] = RB
    THEN LET e == SkipWs(s, k + 1) IN
         IF e <= Len(s) /\ s[e] = CLOSE THEN e ELSE 0
    ELSE 0

\* .*? is lazy: the first k after the opening brace where the tail matches
RECURSIVE FirstTail(_, _)
FirstTail(s, k) ==
    IF k > Len(s) THEN 0
    ELSE IF TailAt(s, k) > 0 THEN k ELSE FirstTail(s, k + 1)

\* a match of the pattern starting at i: [from, to, lb, rb], to = 0 if none
MatchAt(s, i) ==
    IF i <= Len(s) /\ s[i] = OPEN
    THEN LET b == SkipWs(s, i + 1) IN
         IF b <= Len(s) /\ s[b] = LB
         THEN LET k == FirstTail(s, b + 1) IN
              IF k > 0 THEN [from |-> i, to |-> TailAt(s, k), lb |-> b, rb |-> k]
              ELSE [from |-> i, to |-> 0, lb |-> 0, rb |-> 0]
         ELSE [from |-> i, to |-> 0, lb |-> 0, rb |-> 0]
    ELSE [from |-> i, to |-> 0, lb |-> 0, rb |-> 0]

\* TOOL_CALL_PATTERN.findall: the captured groups of the leftmost,
\* non-overlapping matches
RECURSIVE FindAll(_, _)
FindAll(s, i) ==
    IF i > Len(s) THEN <<>>
    ELSE LET m == MatchAt(s, i) IN
         IF m.to > 0 THEN <<SubSeq(s, m.lb, m.rb)>> \o FindAll(s, m.to + 1)
         ELSE FindAll(s, i + 1)

\* TOOL_CALL_PATTERN.sub('', s)
RECURSIVE SubEmpty(_, _)
SubEmpty(s, i) ==
    IF i > Len(s) THEN <<>>
    ELSE LET m == MatchAt(s, i) IN
         IF m.to > 0 THEN SubEmpty(s, m.to + 1)
         ELSE <<s[i]>> \o SubEmpty(s, i + 1)

\* str.strip()
RECURSIVE RStrip(_)
RStrip(s) == IF s # <<>> /\ s[Len(s)] = WS THEN RStrip(SubSeq(s, 1, Len(s) - 1)) ELSE s
Strip(s) == LET b == SkipWs(s, 1) IN RStrip(SubSeq(s, b, Len(s)))

\* the loop of parse_tool_calls over the matches
RECURSIVE LoadCalls(_, _)
LoadCalls(matches, k) ==
    IF k > Len(matches) THEN <<>>
    ELSE LET j == JsonLoads(matches[k]) IN
         IF j.ok /\ j.tool # NONE
         THEN <<[tool |-> j.tool, parameters |-> j.parameters]>> \o LoadCalls(matches, k + 1)
         ELSE LoadCalls(matches, k + 1)

\* parse_tool_calls(response) -> (cleaned_response, tool_calls)
parse_tool_calls(resp) ==
    [cleaned |-> Strip(SubEmpty(resp, 1)),
     calls   |-> LoadCalls(FindAll(resp, 1), 1)]

----------------------------------------------------------------------------
(* Action dispatcher: execute_tool_calls and its two tools *)

\* columns of the TriageChat model (models.py)
TriageChatColumns ==
    {"id", "patient_id", "triage_case_id", "title", "messages", "language",
     "is_active", "created_at", "updated_at"}

\* instance attribute assignment / keyword construction on an ORM row
SetAttr(row, name, val) ==
    [k \in DOMAIN row \cup {name} |-> IF k = name THEN val ELSE row[k]]

NoResultId == 0

\* result dicts; success is what result.get("success") gives under truthiness,
\* has_success tells whether the dict has a "success" key at all
Failure(msg) == [success |-> FALSE, has_success |-> TRUE, message |-> msg,
                 id |-> NoResultId, error |-> NONE]
Success(msg, id) == [success |-> TRUE, has_success |-> TRUE, message |-> msg,
                     id |-> id, error |-> NONE]
\* {"error": f"Unknown tool: {tool_name}"}
UnknownTool == [success |-> FALSE, has_success |-> FALSE, message |-> NONE,
                id |-> NoResultId, error |-> "Unknown tool"]

\* outcome of one tool: the session's pending rows, the result dict, and
\* the exception that left the function (NONE when it returned)
Returned(db, result) == [db |-> db, result |-> result, raised |-> NONE]
Raised(db, exc)      == [db |-> db, result |-> Failure(NONE), raised |-> exc]

\* urgency_map.get(urgency, DBUrgencyLevel.NORMAL)
urgency_map(urgency) ==
    CASE urgency = "low"    -> "LOW"
      [] urgency = "normal" -> "NORMAL"
      [] urgency = "urgent" -> "URGENT"
      [] OTHER              -> "NORMAL"

\* execute_request_appointment(session, patient, params); first_link is the
\* row the LIMIT 1 query on patient_hospitals returns (NONE when there is none)
execute_request_appointment(db, patient, params, first_link) ==
    IF params.kind = "null" THEN Raised(db, "AttributeError")   \* None.get("reason")
    ELSE IF params.reason \in {NONE, ""}
    THEN Returned(db, Failure("Reason is required for appointment request"))
    ELSE IF first_link = NONE
    THEN Returned(db, Failure("Patient must be linked to a hospital to request appointments"))
    ELSE IF params.urgency = NULL THEN Raised(db, "AttributeError")   \* None.lower()
    ELSE LET urgency     == IF params.urgency = NONE THEN "normal" ELSE params.urgency
             apt_request == [patient_id  |-> patient,
                             hospital_id |-> first_link,
                             department  |-> "General Practice",
                             reason      |-> params.reason,
                             urgency     |-> urgency_map(Lower(urgency)),
                             status      |-> "PENDING"]
             requests == Append(db.requests, apt_request)
         IN  Returned([db EXCEPT !.requests = requests],
                      Success("Appointment request submitted successfully", Len(requests)))

\* ids of the patient's rows of triage_chats with is_active = TRUE
ActiveChats(chats, patient) ==
    {i \in 1..Len(chats) : chats[i].patient_id = patient /\ chats[i].is_active}

\* execute_create_triage(session, patient, params)
execute_create_triage(db, patient, params) ==
    IF params.kind = "null" THEN Raised(db, "AttributeError")   \* None.get("symptoms")
    ELSE IF params.symptoms \in {NONE, ""}
    THEN Returned(db, Failure("Symptoms description is required"))
    ELSE LET active == ActiveChats(db.chats, patient)
             triage_data == [symptoms |-> params.symptoms, urgency_level |-> "medium", notes |-> ""]
         IN
         IF Cardinality(active) > 1
         THEN Raised(db, "MultipleResultsFound")                \* scalar_one_or_none()
         ELSE IF Cardinality(active) = 1
         THEN LET id == CHOOSE i \in active : TRUE IN
              IF "triage_data" \notin TriageChatColumns
              THEN Raised(db, "AttributeError")                 \* existing_chat.triage_data
              ELSE Returned([db EXCEPT !.chats[id] = SetAttr(@, "triage_data", triage_data)],
                            Success("Triage case updated with new symptoms", id))
         ELSE IF "triage_data" \notin TriageChatColumns
              THEN Raised(db, "TypeError")                      \* TriageChat(triage_data=...)
              ELSE LET triage_chat == SetAttr([patient_id |-> patient, title |-> NONE,
                                               messages |-> <<>>, is_active |-> TRUE,
                                               language |-> "english"],
                                              "triage_data", triage_data)
                       chats == Append(db.chats, triage_chat)
                   IN  Returned([db EXCEPT !.chats = chats],
                                Success("Triage case created successfully", Len(chats)))

\* the loop of execute_tool_calls from call k on; an exception leaves the loop
RECURSIVE execute_tool_calls(_, _, _, _, _, _)
execute_tool_calls(db, patient, calls, k, results, first_link) ==
    IF k > Len(calls) THEN [db |-> db, results |-> results, raised |-> NONE]
    ELSE LET tool_name == calls[k].tool
             params    == IF calls[k].parameters.kind = "missing"
                          THEN [calls[k].parameters EXCEPT !.kind = "dict"]   \* default {}
                          ELSE calls[k].parameters
         IN
         IF tool_name \notin {"request_appointment", "create_triage"}
         THEN execute_tool_calls(db, patient, calls, k + 1,
                  Append(results, [tool |-> tool_name, result |-> UnknownTool]), first_link)
         ELSE LET out == IF tool_name = "request_appointment"
                         THEN execute_request_appointment(db, patient, params, first_link)
                         ELSE execute_create_triage(db, patient, params)
              IN  IF out.raised # NONE
                  THEN [db |-> out.db, results |-> results, raised |-> out.raised]
                  ELSE execute_tool_calls(out.db, patient, calls, k + 1,
                           Append(results, [tool |-> tool_name, result |-> out.result]),
                           first_link)

----------------------------------------------------------------------------
(* Chat orchestrator: POST /chat = send_chat_message + process_chat *)

MaxTurns == 2

Users     == {"u1", "u2", "u3"}
Hospitals == {"h1", "h2"}

\* select(Patient).where(Patient.user_id == user.id): u3 has no patient profile
PatientOf(user) ==
    CASE user = "u1" -> "p1"
      [] user = "u2" -> "p2"
      [] OTHER       -> NONE

\* user messages, with len(message)
Messages == {"hi", "long"}
MsgLen(message) == IF message = "long" THEN 60 ELSE 2

TitleLimit == 50

\* message[:50] + ("..." if len(message) > 50 else "")
TitleOf_NotTruncated(message) ==
    [of |-> message, chars |-> MsgLen(message), dots |-> MsgLen(message) > TitleLimit]

TitleOf(message) ==
    [of |-> message,
     chars |-> IF MsgLen(message) > TitleLimit THEN TitleLimit ELSE MsgLen(message),
     dots |-> MsgLen(message) > TitleLimit]

FALLBACK     == "I'm sorry, I'm having trouble processing your request right now. Please try again or contact support if the issue persists."
ANNOT_APPT   == "Appointment requested"
ANNOT_TRIAGE == "Triage case created"

EmailBlock  == <<OPEN, LB, "tool:send_email", RB, CLOSE>>
ApptBlock   == <<OPEN, LB, "tool:request_appointment", COMMA, PARAMETERS, LB, "reason:headache", RB, RB, CLOSE>>
TriageBlock == <<OPEN, LB, "tool:create_triage", COMMA, PARAMETERS, LB, "symptoms:fever", RB, RB, CLOSE>>

\* texts the inference service may answer with
ChatReplies ==
    { <<TXT>>,
      <<TXT, WS>> \o ApptBlock,
      <<TXT>> \o TriageBlock,
      <<OPEN, LB, "tool:create_triage", COMMA, PARAMETERS, LB, "symptoms:", RB, RB, CLOSE,
        OPEN, LB, "tool:send_email", RB, CLOSE, TXT>>,
      <<TXT, OPEN, LB, "tool:request_appointment", COMMA, PARAMETERS, NULL, RB, CLOSE>>,
      ApptBlock \o TriageBlock,
      <<OPEN, LB, "tool:request_appointment", RB, CLOSE>>,
      <<WS, TXT, WS>>,
      <<TXT>> \o EmailBlock \o ApptBlock,
      EmailBlock \o TriageBlock,
      <<OPEN, LB, "tool:request_appointment", COMMA, PARAMETERS, LB, "reason:headache",
        COMMA, "urgency:asap", RB, RB, CLOSE>>,
      <<OPEN, LB, "tool:request_appointment", COMMA, PARAMETERS, LB, "reason:headache",
        COMMA, "urgency:null", RB, RB, CLOSE>> }

LLM_FAILED == "llm failed"

\* parse_tool_calls on each text process_chat may hand to it
ParsedReply == [text \in ChatReplies \cup {<<FALLBACK>>} |-> parse_tool_calls(text)]

\* the annotations process_chat appends for the results from index k on
RECURSIVE Annotations_IgnoreSuccess(_, _)
Annotations_IgnoreSuccess(results, k) ==
    IF k > Len(results) THEN <<>>
    ELSE (IF results[k].tool = "request_appointment"
          THEN <<ANNOT_APPT>>
          ELSE IF results[k].tool = "create_triage"
          THEN <<ANNOT_TRIAGE>>
          ELSE <<>>) \o Annotations_IgnoreSuccess(results, k + 1)

RECURSIVE Annotations(_, _)
Annotations(results, k) ==
    IF k > Len(results) THEN <<>>
    ELSE (IF results[k].result.success /\ results[k].tool = "request_appointment"
          THEN <<ANNOT_APPT>>
          ELSE IF results[k].result.success /\ results[k].tool = "create_triage"
          THEN <<ANNOT_TRIAGE>>
          ELSE <<>>) \o Annotations(results, k + 1)

\* what the flush writes for chat.messages = messages: `messages` is
\* `chat.messages or []`, i.e. the loaded list itself when that list is not
\* empty; the two appends then changed the loaded value in place, the
\* attribute history sees old == new, and the column is left out of the UPDATE
FlushedMessages(loaded, messages) ==
    IF loaded # <<>> THEN loaded ELSE messages

\* what the database holds after a request that raised: send_chat_message
\* commits only after process_chat returned, get_db_session rolls back
RolledBack_Kept(persisted, pending) == pending

RolledBack(persisted, pending) == persisted

\* the chat lookup of process_chat: WHERE id = chat_id AND patient_id = patient.id
ChatFound_AnyOwner(chats, chat_id, patient) ==
    chat_id \in 1..Len(chats)

ChatFound(chats, chat_id, patient) ==
    chat_id \in 1..Len(chats) /\ chats[chat_id].patient_id = patient

\* Patient.preferred_language (NONE = NULL) and the context string built from
\* the patient's name, notes and appointments
PatientLanguage(patient) == IF patient = "p1" THEN "hausa" ELSE NONE
PatientContext(patient)  == IF patient = "p1" THEN "context of p1" ELSE "context of p2"

HistoryWindow == 10

\* seq[-n:] and seq[:-1]
LastN(seq, n) == IF Len(seq) <= n THEN seq ELSE SubSeq(seq, Len(seq) - n + 1, Len(seq))
AllButLast_Whole(seq) == seq
AllButLast(seq) == SubSeq(seq, 1, Len(seq) - 1)

\* [{"role": m["role"], "content": m["content"]} for m in messages[-10:]]
llm_messages(messages) ==
    LET window == LastN(messages, HistoryWindow) IN
    [i \in 1..Len(window) |-> [role |-> window[i].role, content |-> window[i].content]]

\* str.title() on a language name
Title(str) ==
    CASE str = "hausa"  -> "Hausa"
      [] str = "igbo"   -> "Igbo"
      [] str = "yoruba" -> "Yoruba"
      [] OTHER          -> str

\* the system message of LLMService.chat: the prompt of the context with the
\* patient information and the language directive
system_prompt(language, patient_context) ==
    [role |-> "system",
     content |-> [context  |-> IF Truthy(patient_context) THEN patient_context ELSE "",
                  language |-> IF Truthy(language) /\ Lower(language) # "english"
                               THEN <<Title(language), "English">>
                               ELSE <<"English">>]]

\* the messages LLMService.chat hands to generate
chat(user_message, language, patient_context, conversation_history) ==
    <<system_prompt(language, patient_context)>>
        \o conversation_history
        \o <<[role |-> "user", content |-> user_message]>>

\* chat.language.value.lower() if chat.language else "english"
ChatLanguage(language) == IF language # NONE THEN Lower(language) ELSE "english"

\* process_chat, lines 484-563: the messages llm.chat sends for a chat whose
\* loaded log is `loaded`
LlmRequest(loaded, message, language, patient_context) ==
    LET user_msg == [role |-> "user", content |-> <<message>>] IN
    chat(<<message>>, ChatLanguage(language), patient_context,
         AllButLast(llm_messages(Append(loaded, user_msg))))

NoCtx == [pc |-> "idle", log |-> <<>>, message |-> NONE, language |-> NONE,
          patient_context |-> NONE, sent |-> <<>>]

CtxIdle == ctx = NoCtx

RaceIdle == inflight = <<>>

NoTurn == [user |-> NONE, chat_id_arg |-> 0, message |-> NONE, llm |-> <<>>,
           llm_messages |-> <<>>,
           status |-> NONE, exception |-> NONE, chat_id |-> 0, response |-> <<>>,
           tool_calls |-> <<>>, tool_results |-> <<>>, messages |-> <<>>]

NoChatId == 0

ChatIdle ==
    /\ triage_chats = <<>>
    /\ appointment_requests = <<>>
    /\ patient_hospitals = {}
    /\ turn_no = 0
    /\ last_turn = NoTurn

----------------------------------------------------------------------------
(* Transcript cache: transcribe_message *)

MaxRequests == 2

\* PreferredLanguage enum values; all_languages in the order of the loop
PreferredLanguage == {"english", "hausa", "igbo", "yoruba"}
all_languages     == <<"english", "yoruba", "hausa", "igbo">>

\* values a caller may pass for view_language / override_language
ViewArgs     == {NONE, "english", "Yoruba", "igbo", "french"}
OverrideArgs == {NONE, "", "Hausa", "yoruba", "french"}

\* message ids a caller may pass: the voice message, a message without an
\* audio attachment, and an id no message has
VOICE_MESSAGE == "voice message"
MessageIds == {VOICE_MESSAGE, "text message", "unknown id"}

\* preferred_language of the viewer's patient row (NONE: no row, or no preference)
ViewerPrefs == {NONE, "hausa"}

EmptyMap == [k \in {} |-> NONE]
Put(map, key, val) == [k \in DOMAIN map \cup {key} |-> IF k = key THEN val ELSE map[k]]

\* text returned by speech call number n for language lang
SpeechText(n, lang) == [call |-> n, spoken |-> lang, into |-> "origin"]

\* translate_text(text, source, target); ok = FALSE stands for a timeout, an
\* HTTP error, an empty response or a missing endpoint; the same language
\* short-circuits without a call
translate_text_ErrorAsText(text, source_language, target_language, ok) ==
    IF Lower(source_language) = Lower(target_language) THEN [text |-> text, error |-> NONE]
    ELSE IF ~ok THEN [text |-> [text EXCEPT !.into = "error message"], error |-> "translation failed"]
    ELSE [text |-> [text EXCEPT !.into = target_language], error |-> NONE]

translate_text(text, source_language, target_language, ok) ==
    IF Lower(source_language) = Lower(target_language) THEN [text |-> text, error |-> NONE]
    ELSE IF ~ok THEN [text |-> text, error |-> "translation failed"]
    ELSE [text |-> [text EXCEPT !.into = target_language], error |-> NONE]

\* transcripts[lang] = translation.get("text", original_text)
StoreTranslation_DropOnError(map, lang, translation, original_text) ==
    IF translation.error # NONE THEN map ELSE Put(map, lang, translation.text)

StoreTranslation(map, lang, translation, original_text) ==
    Put(map, lang, translation.text)

\* the loop over all_languages from index i on; st = [map, calls]
RECURSIVE TranslateAll(_, _, _, _, _)
TranslateAll(i, st, original_text, spoken_lang, failing) ==
    IF i > Len(all_languages) THEN st
    ELSE LET lang == all_languages[i] IN
         IF lang # spoken_lang /\ lang \notin DOMAIN st.map
         THEN TranslateAll(i + 1,
                  [map   |-> StoreTranslation(st.map, lang,
                                 translate_text(original_text, spoken_lang, lang, lang \notin failing),
                                 original_text),
                   calls |-> Append(st.calls, [svc |-> "translate", lang |-> lang,
                                               ok |-> lang \notin failing])],
                  original_text, spoken_lang, failing)
         ELSE TranslateAll(i + 1, st, original_text, spoken_lang, failing)

\* target_language: view_language.lower(), else the viewer's preferred
\* language, else english
TargetLanguage(view_language, viewer_pref) ==
    IF Truthy(view_language) THEN Lower(view_language)
    ELSE IF viewer_pref # NONE THEN viewer_pref ELSE "english"

\* the early return "if not override_language and target_language in transcripts"
IsCacheHit_OverrideOnly(override_language, target_language, map) ==
    Truthy(override_language) /\ target_language \in DOMAIN map

IsCacheHit(override_language, target_language, map) ==
    ~Truthy(override_language) /\ target_language \in DOMAIN map

\* spoken_lang chosen at lines 658-673
SpokenLang(override_language, orig) ==
    IF Truthy(override_language) THEN Lower(override_language)
    ELSE IF orig # NONE THEN orig ELSE "english"

\* message.original_language set at lines 658-673
NewOriginalLanguage(override_language, orig) ==
    IF Truthy(override_language)
    THEN IF Lower(override_language) \in PreferredLanguage
         THEN Lower(override_language) ELSE "english"
    ELSE IF orig # NONE THEN orig ELSE "english"

\* transcripts the population starts from: cleared on override
StartMap(override_language, map) ==
    IF Truthy(override_language) THEN EmptyMap ELSE map

\* what the database holds after a return that precedes session.commit():
\* the assignments made on the loaded row are pending in the session, which
\* get_db_session closes without committing
Uncommitted_Written(persisted, pending) == pending

Uncommitted(persisted, pending) == persisted

NoRequest == [message_id |-> NONE, view_language |-> NONE,
              override_language |-> NONE, viewer_pref |-> NONE]

NoResult == [error |-> NONE, text |-> NONE, language |-> NONE,
             original_language |-> NONE, cached |-> FALSE, translated |-> FALSE]

CacheIdle ==
    /\ original_language = NONE
    /\ transcripts = EmptyMap
    /\ request_no = 0
    /\ last_request = NoRequest
    /\ last_result = NoResult
    /\ external_calls = <<>>
    /\ speech_count = 0

\* a voice message as send_message stores it: original_language is the
\* sender's preferred language (NULL for a sender without one), no transcripts
CacheInit ==
    /\ original_language \in PreferredLanguage \cup {NONE}
    /\ transcripts = EmptyMap
    /\ request_no = 0
    /\ last_request = NoRequest
    /\ last_result = NoResult
    /\ external_calls = <<>>
    /\ speech_count = 0
    /\ ChatIdle
    /\ CtxIdle
    /\ RaceIdle
    /\ reply_blocks = <<>>
    /\ response = <<>>
    /\ cleaned_response = <<>>
    /\ tool_calls = <<>>
    /\ parse_pc = "start"

\* transcribe_message(session, user, message_id, override_language, view_language)
\* for the voice message; speech_ok and failing are the answers of the
\* speech service and of the translation service to the calls it issues
TranscribeMessage ==
    /\ request_no < MaxRequests
    /\ \E message_id \in MessageIds :
       \* the arguments are read only for a message with an attachment, the
       \* viewer's patient row only when no view_language is given
       \E view_language \in (IF message_id = VOICE_MESSAGE THEN ViewArgs ELSE {NONE}),
          override_language \in (IF message_id = VOICE_MESSAGE THEN OverrideArgs ELSE {NONE}) :
       \E viewer_pref \in (IF message_id = VOICE_MESSAGE /\ ~Truthy(view_language)
                           THEN ViewerPrefs ELSE {NONE}) :
        LET target_language == TargetLanguage(view_language, viewer_pref)
            spoken_lang     == SpokenLang(override_language, original_language)
            original_text   == SpeechText(speech_count + 1, spoken_lang)
        IN
        /\ request_no' = request_no + 1
        /\ last_request' = [message_id |-> message_id,
                            view_language |-> view_language,
                            override_language |-> override_language,
                            viewer_pref |-> viewer_pref]
        /\ IF message_id # VOICE_MESSAGE
           THEN \* lines 623-627: no such message, or no audio attachment
                /\ last_result' = [NoResult EXCEPT !.error =
                                       IF message_id = "unknown id" THEN "Message not found"
                                       ELSE "Message has no audio attachment"]
                /\ external_calls' = <<>>
                /\ UNCHANGED <<original_language, transcripts, speech_count>>
           ELSE
           IF IsCacheHit(override_language, target_language, transcripts)
           THEN \* lines 648-655: return the cached text
                /\ last_result' = [error |-> NONE,
                                   text |-> transcripts[target_language],
                                   language |-> target_language,
                                   original_language |-> original_language,
                                   cached |-> TRUE,
                                   translated |-> target_language # original_language]
                /\ external_calls' = <<>>
                /\ UNCHANGED <<original_language, transcripts, speech_count>>
           ELSE \E speech_ok \in BOOLEAN :
                LET speech_call == [svc |-> "speech", lang |-> spoken_lang, ok |-> speech_ok] IN
                IF ~speech_ok
                THEN \* lines 678-679: error returned before the commit of line 702;
                     \* the session is closed without a commit (get_db_session)
                     \* return {"error": transcription_result["error"]}
                     /\ last_result' = [NoResult EXCEPT !.error = "speech failed"]
                     /\ external_calls' = <<speech_call>>
                     /\ original_language' =
                            Uncommitted(original_language,
                                        NewOriginalLanguage(override_language, original_language))
                     /\ transcripts' = Uncommitted(transcripts, transcripts)
                     /\ UNCHANGED speech_count
                ELSE \* lines 681-710
                     \E failing \in SUBSET (PreferredLanguage \ {spoken_lang}) :
                     LET filled == TranslateAll(1,
                                       [map   |-> Put(StartMap(override_language, transcripts),
                                                      spoken_lang, original_text),
                                        calls |-> <<speech_call>>],
                                       original_text, spoken_lang, failing)
                     IN
                     /\ speech_count' = speech_count + 1
                     /\ original_language' = NewOriginalLanguage(override_language, original_language)
                     /\ transcripts' = filled.map
                     /\ external_calls' = filled.calls
                     /\ last_result' = [error |-> NONE,
                                        text |-> IF target_language \in DOMAIN filled.map
                                                 THEN filled.map[target_language]
                                                 ELSE original_text,
                                        language |-> target_language,
                                        original_language |-> spoken_lang,
                                        cached |-> FALSE,
                                        translated |-> target_language # spoken_lang]
    /\ UNCHANGED <<parse_vars, chat_vars, ctx_vars, race_vars>>

CacheNext == TranscribeMessage

SpecCache == CacheInit /\ [][CacheNext]_vars

----------------------------------------------------------------------------
(* Concurrent transcribe_message requests for the voice message. Each request
   has its own session: it loads the row (line 617), decides on what it
   loaded, awaits the speech and translation services and commits (line 702).
   Nothing it computes after the load reads the database again. *)

MaxConcurrent == 2

RequestIds == 1..MaxConcurrent

RaceViews == {NONE, "hausa"}

RaceOverrides == {NONE, "hausa"}

\* the sender's preferred language stored with the message by send_message
RaceSenders == {NONE, "yoruba"}

\* the translation service answers every call of a request or none
RaceFailing(spoken_lang) == {{}, PreferredLanguage \ {spoken_lang}}

NoInflight == [pc |-> "idle", view_language |-> NONE, override_language |-> NONE,
               orig |-> NONE, map |-> EmptyMap, result |-> NoResult, calls |-> <<>>]

\* where a request goes after the load: the decision of lines 648-655 is
\* taken on the loaded row alone, whatever other requests are in flight
AfterLoad_SingleFlight(hit, others_in_flight) ==
    IF hit THEN "done" ELSE IF others_in_flight THEN "joined" ELSE "loaded"

AfterLoad(hit, others_in_flight) ==
    IF hit THEN "done" ELSE "loaded"

\* the value a column holds after the UPDATE of session.commit(): a column
\* whose assigned value equals the loaded one is not part of the UPDATE
CommitColumn(loaded, assigned, current) ==
    IF assigned # loaded THEN assigned ELSE current

RaceInit ==
    /\ original_language \in RaceSenders
    /\ transcripts = EmptyMap
    /\ request_no = 0
    /\ last_request = NoRequest
    /\ last_result = NoResult
    /\ external_calls = <<>>
    /\ speech_count = 0
    /\ inflight = [r \in RequestIds |-> NoInflight]
    /\ ChatIdle
    /\ CtxIdle
    /\ reply_blocks = <<>>
    /\ response = <<>>
    /\ cleaned_response = <<>>
    /\ tool_calls = <<>>
    /\ parse_pc = "start"

\* lines 617-655: request r loads the row and returns the cached text or
\* goes on to the speech call
LoadMessage(r) ==
    /\ inflight[r].pc = "idle"
    /\ \E view_language \in RaceViews, override_language \in RaceOverrides :
        LET target_language == TargetLanguage(view_language, NONE)
            hit == IsCacheHit(override_language, target_language, transcripts)
            others == \E q \in RequestIds \ {r} : inflight[q].pc = "loaded"
        IN
        inflight' = [inflight EXCEPT ![r] =
            [pc |-> AfterLoad(hit, others),
             view_language |-> view_language,
             override_language |-> override_language,
             orig |-> original_language,
             map |-> transcripts,
             result |-> IF hit
                        THEN [error |-> NONE,
                              text |-> transcripts[target_language],
                              language |-> target_language,
                              original_language |-> original_language,
                              cached |-> TRUE,
                              translated |-> target_language # original_language]
                        ELSE NoResult,
             calls |-> <<>>]]
    /\ UNCHANGED <<parse_vars, cache_vars, chat_vars, ctx_vars>>

\* lines 657-710: request r, on the row as it loaded it, calls the speech
\* service, fills the map and commits
FinishRequest(r) ==
    /\ inflight[r].pc = "loaded"
    /\ LET me              == inflight[r]
           target_language == TargetLanguage(me.view_language, NONE)
           spoken_lang     == SpokenLang(me.override_language, me.orig)
           original_text   == SpeechText(speech_count + 1, spoken_lang)
       IN
       \E speech_ok \in BOOLEAN :
       LET speech_call == [svc |-> "speech", lang |-> spoken_lang, ok |-> speech_ok] IN
       IF ~speech_ok
       THEN /\ inflight' = [inflight EXCEPT ![r].pc = "done",
                                            ![r].result = [NoResult EXCEPT !.error = "speech failed"],
                                            ![r].calls = <<speech_call>>]
            /\ original_language' =
                   Uncommitted(original_language,
                               NewOriginalLanguage(me.override_language, me.orig))
            /\ transcripts' = Uncommitted(transcripts, me.map)
            /\ UNCHANGED speech_count
       ELSE \E failing \in RaceFailing(spoken_lang) :
            LET filled == TranslateAll(1,
                              [map   |-> Put(StartMap(me.override_language, me.map),
                                             spoken_lang, original_text),
                               calls |-> <<speech_call>>],
                              original_text, spoken_lang, failing)
            IN
            /\ speech_count' = speech_count + 1
            /\ original_language' =
                   CommitColumn(me.orig,
                                NewOriginalLanguage(me.override_language, me.orig),
                                original_language)
            /\ transcripts' = filled.map
            /\ inflight' = [inflight EXCEPT
                   ![r].pc = "done",
                   ![r].calls = filled.calls,
                   ![r].result = [error |-> NONE,
                                  text |-> IF target_language \in DOMAIN filled.map
                                           THEN filled.map[target_language]
                                           ELSE original_text,
                                  language |-> target_language,
                                  original_language |-> spoken_lang,
                                  cached |-> FALSE,
                                  translated |-> target_language # spoken_lang]]
    /\ UNCHANGED <<parse_vars, chat_vars, ctx_vars, request_no, last_request,
                   last_result, external_calls>>

RaceNext == \E r \in RequestIds : LoadMessage(r) \/ FinishRequest(r)

SpecRace == RaceInit /\ [][RaceNext]_vars

----------------------------------------------------------------------------
(* Chat orchestrator: the request handler *)

ChatInit ==
    /\ triage_chats = <<>>
    /\ appointment_requests = <<>>
    /\ patient_hospitals \in { {}, {<<"p1", "h1">>}, {<<"p1", "h1">>, <<"p1", "h2">>} }
    /\ turn_no = 0
    /\ last_turn = NoTurn
    /\ CacheIdle
    /\ CtxIdle
    /\ RaceIdle
    /\ reply_blocks = <<>>
    /\ response = <<>>
    /\ cleaned_response = <<>>
    /\ tool_calls = <<>>
    /\ parse_pc = "start"

LinksOf(patient) == {l[2] : l \in {m \in patient_hospitals : m[1] = patient}}

\* POST /chat: process_chat, then db.commit(); a ValueError becomes a 400, any
\* other exception a 500, and in both cases nothing of the request is committed.
\* llm is the text llm.chat returns, LLM_FAILED when it raises
SendChatMessage ==
    /\ turn_no < MaxTurns
    /\ \E user \in Users, message \in Messages,
          chat_id \in NoChatId..(Len(triage_chats) + 1) :
        LET patient == PatientOf(user)
            request == [NoTurn EXCEPT !.user = user, !.chat_id_arg = chat_id,
                                      !.message = message]
            found   == ChatFound(triage_chats, chat_id, patient)
            \* lines 462-482: get or create the chat
            chats0  == IF chat_id # NoChatId THEN triage_chats
                       ELSE Append(triage_chats,
                                   [patient_id |-> patient, title |-> NONE,
                                    messages |-> <<>>, is_active |-> TRUE,
                                    language |-> IF PatientLanguage(patient) # NONE
                                                 THEN PatientLanguage(patient)
                                                 ELSE "english"])
            id      == IF chat_id # NoChatId THEN chat_id ELSE Len(chats0)
        IN
        /\ turn_no' = turn_no + 1
        /\ UNCHANGED patient_hospitals
        /\ IF patient = NONE
           THEN /\ last_turn' = [request EXCEPT !.status = "400",
                                                !.exception = "Patient profile not found"]
                /\ triage_chats' = RolledBack(triage_chats, triage_chats)
                /\ appointment_requests' = RolledBack(appointment_requests, appointment_requests)
           ELSE IF chat_id # NoChatId /\ ~found
           THEN /\ last_turn' = [request EXCEPT !.status = "400", !.exception = "Chat not found"]
                /\ triage_chats' = RolledBack(triage_chats, triage_chats)
                /\ appointment_requests' = RolledBack(appointment_requests, appointment_requests)
           ELSE
           \E llm \in ChatReplies \cup {<<LLM_FAILED>>},
              first_link \in (IF LinksOf(patient) = {} THEN {NONE} ELSE LinksOf(patient)) :
            LET loaded  == chats0[id].messages
                user_msg == [role |-> "user", content |-> <<message>>]
                \* lines 553-563
                sent    == LlmRequest(loaded, message, chats0[id].language,
                                      PatientContext(patient))
                asked   == [request EXCEPT !.llm = llm, !.llm_messages = sent]
                \* lines 564-569
                text    == IF llm = <<LLM_FAILED>> THEN <<FALLBACK>> ELSE llm
                parsed  == ParsedReply[text]
                \* lines 571-573
                run     == IF parsed.calls # <<>>
                           THEN execute_tool_calls([chats |-> chats0, requests |-> appointment_requests],
                                                   patient, parsed.calls, 1, <<>>, first_link)
                           ELSE [db |-> [chats |-> chats0, requests |-> appointment_requests],
                                 results |-> <<>>, raised |-> NONE]
                \* lines 575-597
                reply   == parsed.cleaned \o Annotations(run.results, 1)
                assistant_msg == [role |-> "assistant", content |-> reply,
                                  tool_calls |-> parsed.calls, tool_results |-> run.results]
                messages == loaded \o <<user_msg, assistant_msg>>
                \* lines 599-605 and the commit
                row     == [run.db.chats[id] EXCEPT
                               !.title = IF Len(messages) <= 2 THEN TitleOf(message) ELSE @,
                               !.messages = FlushedMessages(loaded, messages)]
            IN
            IF run.raised # NONE
            THEN /\ last_turn' = [asked EXCEPT !.status = "500", !.exception = run.raised,
                                                !.tool_calls = parsed.calls]
                 /\ triage_chats' = RolledBack(triage_chats, run.db.chats)
                 /\ appointment_requests' = RolledBack(appointment_requests, run.db.requests)
            ELSE /\ last_turn' = [asked EXCEPT !.status = "200", !.chat_id = id,
                                                !.response = reply,
                                                !.tool_calls = parsed.calls,
                                                !.tool_results = run.results,
                                                !.messages = messages]
                 /\ triage_chats' = [run.db.chats EXCEPT ![id] = row]
                 /\ appointment_requests' = run.db.requests
    /\ UNCHANGED <<parse_vars, cache_vars, ctx_vars, race_vars>>

ChatNext == SendChatMessage

SpecChat == ChatInit /\ [][ChatNext]_vars

----------------------------------------------------------------------------
(* Context assembly on its own: the messages sent for a given loaded log *)

MaxPriorTurns == 6

\* the log of a session after n completed turns, as process_chat writes it
LogOfTurns(n) ==
    [i \in 1..(2 * n) |->
        IF i % 2 = 1 THEN [role |-> "user", content |-> <<"user text", i>>]
        ELSE [role |-> "assistant", content |-> <<"reply text", i>>,
              tool_calls |-> <<>>, tool_results |-> <<>>]]

ContextInit ==
    /\ \E n \in 0..MaxPriorTurns, message \in Messages,
          language \in {NONE, "english", "hausa", "igbo"},
          patient \in {"p1", "p2"} :
          ctx = [NoCtx EXCEPT !.pc = "start", !.log = LogOfTurns(n), !.message = message,
                              !.language = language,
                              !.patient_context = PatientContext(patient)]
    /\ CacheIdle
    /\ ChatIdle
    /\ RaceIdle
    /\ reply_blocks = <<>>
    /\ response = <<>>
    /\ cleaned_response = <<>>
    /\ tool_calls = <<>>
    /\ parse_pc = "start"

\* lines 484-563 of process_chat on the loaded log, up to the call of generate
AssembleContext ==
    /\ ctx.pc = "start"
    /\ ctx' = [ctx EXCEPT !.pc = "sent",
                          !.sent = LlmRequest(ctx.log, ctx.message, ctx.language,
                                              ctx.patient_context)]
    /\ UNCHANGED <<parse_vars, cache_vars, chat_vars, race_vars>>

ContextNext == AssembleContext

SpecContext == ContextInit /\ [][ContextNext]_vars

----------------------------------------------------------------------------
(* Model replies: concatenations of text pieces and delimited blocks *)

MaxBlocks == 4

TextPieces == { <<TXT>>, <<WS>> }

GoodBlocks ==
    { <<OPEN, LB, "tool:request_appointment", COMMA, PARAMETERS, LB, "reason:headache", RB, RB, CLOSE>>,
      <<OPEN, WS, LB, "tool:create_triage", RB, WS, CLOSE>>,
      <<OPEN, LB, "tool:send_email", RB, CLOSE>> }

BadBlocks ==
    { <<OPEN, TXT, CLOSE>>,                              \* not an object
      <<OPEN, LB, "tool:create_triage", CLOSE>>,         \* brace never closed
      <<OPEN, LB, TXT, RB, CLOSE>>,                      \* braces around junk
      <<OPEN, LB, "name:create_triage", RB, CLOSE>>,     \* object without "tool"
      <<OPEN, CLOSE>>,                                   \* empty block
      <<OPEN, LB, "tool:send_email", RB, COMMA, CLOSE>>  \* junk after the object
    }

Pieces4 == TextPieces \cup GoodBlocks \cup BadBlocks

RECURSIVE Flatten(_)
Flatten(ss) == IF ss = <<>> THEN <<>> ELSE Head(ss) \o Flatten(Tail(ss))

BlockSeqs == UNION { [1..n -> Pieces4] : n \in 0..MaxBlocks }

\* a delimiter-enclosed block and what it holds
IsBlock(b)      == Len(b) >= 2 /\ b[1] = OPEN /\ b[Len(b)] = CLOSE
BlockBody(b)    == SubSeq(b, 2, Len(b) - 1)
IsWellFormed(b) == IsBlock(b) /\ JsonLoads(BlockBody(b)).ok /\ JsonLoads(BlockBody(b)).tool # NONE
IsMalformed(b)  == IsBlock(b) /\ ~IsWellFormed(b)
CallOf(b)       == [tool |-> JsonLoads(BlockBody(b)).tool,
                    parameters |-> JsonLoads(BlockBody(b)).parameters]

ParseInit ==
    /\ CacheIdle
    /\ ChatIdle
    /\ CtxIdle
    /\ RaceIdle
    /\ reply_blocks \in BlockSeqs
    /\ response = Flatten(reply_blocks)
    /\ cleaned_response = <<>>
    /\ tool_calls = <<>>
    /\ parse_pc = "start"

\* cleaned_response, tool_calls = parse_tool_calls(response)
ParseToolCalls ==
    /\ parse_pc = "start"
    /\ cleaned_response' = parse_tool_calls(response).cleaned
    /\ tool_calls' = parse_tool_calls(response).calls
    /\ parse_pc' = "parsed"
    /\ UNCHANGED <<reply_blocks, response>>
    /\ UNCHANGED <<cache_vars, chat_vars, ctx_vars, race_vars>>

ParseNext == ParseToolCalls

SpecParse == ParseInit /\ [][ParseNext]_vars

----------------------------------------------------------------------------
(* Claims about the extractor *)

GoodOnes(bs) == SelectSeq(bs, IsWellFormed)
BadOnes(bs)  == SelectSeq(bs, IsMalformed)

\* the calls the well-formed blocks of a reply denote, in reply order
RECURSIVE CallsOf(_)
CallsOf(bs) == IF bs = <<>> THEN <<>> ELSE <<CallOf(Head(bs))>> \o CallsOf(Tail(bs))

HasDelimiter(text) == \E i \in 1..Len(text) : text[i] \in {OPEN, CLOSE}

CountTxt(text) == Cardinality({i \in 1..Len(text) : text[i] = TXT})

\* text pieces of the reply that lie between two blocks
TextBetweenBlocks(bs) ==
    {i \in 1..Len(bs) : /\ bs[i] = <<TXT>>
                         /\ \E j \in 1..(i - 1) : IsBlock(bs[j])
                         /\ \E k \in (i + 1)..Len(bs) : IsBlock(bs[k])}

\* C4: a reply with two well-formed blocks and one malformed block yields
\* exactly the two well-formed calls, and the cleaned text contains none of
\* the three blocks.
C4_ExtractionCorrectness ==
    (parse_pc = "parsed" /\ Len(GoodOnes(reply_blocks)) = 2 /\ Len(BadOnes(reply_blocks)) = 1)
        => /\ tool_calls = CallsOf(GoodOnes(reply_blocks))
           /\ ~HasDelimiter(cleaned_response)

\* C5: a malformed block never prevents the extraction of another block:
\* every well-formed block of the reply is extracted, and the text lying
\* between two blocks is kept in the cleaned reply.
C5_MalformedNeverAborts ==
    parse_pc = "parsed"
        => /\ tool_calls = CallsOf(GoodOnes(reply_blocks))
           /\ CountTxt(cleaned_response) >= Cardinality(TextBetweenBlocks(reply_blocks))

----------------------------------------------------------------------------
(* Claims about the transcript cache *)

IsRequestStep == request_no' = request_no + 1 /\ last_request'.message_id = VOICE_MESSAGE
RequestTarget == TargetLanguage(last_request.view_language, last_request.viewer_pref)
HasOverride   == Truthy(last_request.override_language)
CallIndices   == 1..Len(external_calls)
FailedTranslations == {i \in CallIndices : external_calls[i].svc = "translate" /\ ~external_calls[i].ok}

\* C6: a request without override for a view language that is already a key
\* of the map returns the text stored under that key, issues no speech and no
\* translation call, and leaves the map and original_language unchanged.
C6_CacheHit ==
    [][ (IsRequestStep /\ ~HasOverride' /\ RequestTarget' \in DOMAIN transcripts)
          => /\ last_result'.error = NONE
             /\ last_result'.text = transcripts[RequestTarget']
             /\ external_calls' = <<>>
             /\ transcripts' = transcripts
             /\ original_language' = original_language ]_vars

\* a request for English served from the map an earlier request populated
C6_Witness ==
    /\ request_no = 2 /\ last_request.message_id = VOICE_MESSAGE
    /\ ~HasOverride /\ RequestTarget = "english"
    /\ last_result.cached /\ external_calls = <<>>
    /\ last_result.text = transcripts["english"]
    /\ last_result.text.call = 1

\* C7: after the first request on a never-transcribed message whose speech
\* call succeeds, all four supported languages are keys of the map, whichever
\* translations succeed or fail.
C7_FirstCallPopulatesAll ==
    [][ (IsRequestStep /\ transcripts = EmptyMap /\ last_result'.error = NONE)
          => PreferredLanguage \subseteq DOMAIN transcripts' ]_vars

\* a first request in which a translation failed and all four keys are present
C7_Witness ==
    /\ request_no = 1 /\ speech_count = 1 /\ last_request.message_id = VOICE_MESSAGE
    /\ FailedTranslations # {}
    /\ PreferredLanguage \subseteq DOMAIN transcripts

\* C8: in every reachable state the keys of the map are supported languages
\* and, once transcribed, the original_language key is present.
C8_KeysSupported ==
    /\ DOMAIN transcripts \subseteq PreferredLanguage
    /\ transcripts # EmptyMap => original_language \in DOMAIN transcripts

\* C9: a request with override L2 whose speech call succeeds makes L2 the
\* message's spoken language, keys the speech output obtained for L2 under L2,
\* and keeps no entry computed before the override.
C9_OverrideInvalidation ==
    [][ (IsRequestStep /\ HasOverride' /\ last_result'.error = NONE)
          => LET L2 == Lower(last_request'.override_language) IN
             /\ original_language' = L2
             /\ L2 \in DOMAIN transcripts'
             /\ speech_count' = speech_count + 1
             /\ transcripts'[L2] = SpeechText(speech_count', L2)
             /\ \A k \in DOMAIN transcripts' : transcripts'[k].call = speech_count' ]_vars

\* C10: without override a request removes no key and re-fetches no language
\* whose key is already cached; between requests the map does not change.
C10_MonotonicCache ==
    [][ /\ (IsRequestStep /\ ~HasOverride')
           => /\ DOMAIN transcripts \subseteq DOMAIN transcripts'
              /\ \A i \in 1..Len(external_calls') :
                    external_calls'[i].lang \notin DOMAIN transcripts
        /\ request_no' = request_no => transcripts' = transcripts ]_vars

\* a step of a request whose speech call succeeded: the request populates the map
IsPopulateStep == IsRequestStep /\ speech_count' = speech_count + 1
SpeechCalls      == {i \in CallIndices : external_calls[i].svc = "speech"}
TranslationCalls == {i \in CallIndices : external_calls[i].svc = "translate"}

\* C11: during population a failed translation stores the origin text
\* verbatim under its target key and a successful one stores the translation;
\* no supported key is left absent, and the request returns without error the
\* text stored under the requested language.
C11_TranslationFallback ==
    [][ IsPopulateStep
          => LET origin == SpeechText(speech_count', external_calls'[1].lang) IN
             /\ \A i \in TranslationCalls' :
                   LET c == external_calls'[i] IN
                   /\ c.lang \in DOMAIN transcripts'
                   /\ transcripts'[c.lang] = IF c.ok THEN [origin EXCEPT !.into = c.lang]
                                                    ELSE origin
             /\ PreferredLanguage \subseteq DOMAIN transcripts'
             /\ last_result'.error = NONE
             /\ RequestTarget' \in PreferredLanguage
                   => last_result'.text = transcripts'[RequestTarget'] ]_vars

\* the translation for the requested language failed, another one succeeded,
\* and the request returned the origin text stored under the requested key
C11_Witness ==
    /\ request_no > 0 /\ last_request.message_id = VOICE_MESSAGE
    /\ \E i \in FailedTranslations : external_calls[i].lang = RequestTarget
    /\ \E j \in TranslationCalls : external_calls[j].ok
    /\ last_result.error = NONE
    /\ last_result.text = transcripts[RequestTarget]
    /\ last_result.text.into = "origin"

\* C12: when the speech call fails the request returns an explicit error and
\* no text, and the persisted map and original_language are what they were
\* before the request, with or without an override.
C12_SpeechFailure ==
    [][ (IsRequestStep /\ \E i \in SpeechCalls' : ~external_calls'[i].ok)
          => /\ last_result'.error # NONE
             /\ ~Truthy(last_result'.text)
             /\ transcripts' = transcripts
             /\ original_language' = original_language ]_vars

\* a populated message whose re-transcription under an override for another
\* language failed at the speech call
C12_Witness ==
    /\ request_no = 2 /\ last_request.message_id = VOICE_MESSAGE
    /\ HasOverride
    /\ Lower(last_request.override_language) \in PreferredLanguage \ {original_language}
    /\ external_calls # <<>> /\ ~external_calls[1].ok
    /\ last_result.error # NONE
    /\ PreferredLanguage \subseteq DOMAIN transcripts

\* C13: on a message with no original_language and an empty map, a request
\* without override for view language V pins original_language = english,
\* issues one speech call for english and then exactly the translation calls
\* yoruba, hausa, igbo in that order, and returns the text stored under V.
C13_ScenarioB ==
    [][ (IsPopulateStep /\ original_language = NONE /\ transcripts = EmptyMap /\ ~HasOverride')
          => /\ original_language' = "english"
             /\ [i \in CallIndices' |-> <<external_calls'[i].svc, external_calls'[i].lang>>]
                   = << <<"speech", "english">>, <<"translate", "yoruba">>,
                        <<"translate", "hausa">>, <<"translate", "igbo">> >>
             /\ RequestTarget' \in DOMAIN transcripts'
             /\ last_result'.text = transcripts'[RequestTarget'] ]_vars

\* C14: a request that populates the map issues at most four external calls:
\* exactly one speech call and at most three translation calls.
C14_AtMostFourCalls ==
    [][ IsPopulateStep
          => /\ Len(external_calls') <= 4
             /\ Cardinality(SpeechCalls') = 1
             /\ Cardinality(TranslationCalls') <= 3 ]_vars

----------------------------------------------------------------------------
(* Claims about the chat orchestrator and the dispatcher *)

IsTurnStep == turn_no' = turn_no + 1

\* the latest request was admitted: the user has a patient profile and named
\* no chat or a chat of their own
TurnAdmitted ==
    turn_no > 0 /\ last_turn.exception \notin {"Patient profile not found", "Chat not found"}

\* indices of the create_triage calls with a non-empty symptoms parameter
TriageCalls(calls) ==
    {k \in 1..Len(calls) : /\ calls[k].tool = "create_triage"
                           /\ calls[k].parameters.kind # "null"
                           /\ calls[k].parameters.symptoms \notin {NONE, ""}}

\* C1: whatever action calls the reply holds, no action failure propagates
\* out of process_chat: an admitted turn completes with a reply and its two
\* entries are persisted at the end of the session's log.
C1_TurnAlwaysCompletes ==
    TurnAdmitted
        => /\ last_turn.status = "200"
           /\ last_turn.chat_id \in 1..Len(triage_chats)
           /\ triage_chats[last_turn.chat_id].messages = last_turn.messages

\* C2: a create_triage call returns the id of an active case of the patient:
\* the case the patient already had when there was one (merge), a new one
\* otherwise; two calls for the same patient return the same id.
C2_MergeOrCreate ==
    [][ (IsTurnStep /\ TriageCalls(last_turn'.tool_calls) # {})
          => LET patient == PatientOf(last_turn'.user)
                 before  == ActiveChats(triage_chats, patient)
                 after   == ActiveChats(triage_chats', patient)
             IN  /\ last_turn'.status = "200"
                 /\ \A k \in TriageCalls(last_turn'.tool_calls) :
                       /\ last_turn'.tool_results[k].result.success
                       /\ last_turn'.tool_results[k].result.id \in after
                       /\ before # {} => last_turn'.tool_results[k].result.id \in before
                 /\ \A j, k \in TriageCalls(last_turn'.tool_calls) :
                       last_turn'.tool_results[j].result.id = last_turn'.tool_results[k].result.id
        ]_vars

\* C3: after any sequence of chat turns each patient has at most one active
\* case created through the chat path.
C3_AtMostOneActiveCase ==
    \A user \in Users : Cardinality(ActiveChats(triage_chats, PatientOf(user))) <= 1

\* the latest turn completed and its log, ending in the two new entries, is
\* what the chat's row holds
TurnPersisted ==
    /\ last_turn.status = "200"
    /\ last_turn.chat_id \in 1..Len(triage_chats)
    /\ triage_chats[last_turn.chat_id].messages = last_turn.messages

\* the required parameter of an action call (NONE when it is not given)
RequiredParam(call) ==
    IF call.tool = "request_appointment" THEN call.parameters.reason
    ELSE call.parameters.symptoms

KnownCalls(calls) ==
    {k \in 1..Len(calls) : calls[k].tool \in {"request_appointment", "create_triage"}}
UnknownCalls(calls) == (1..Len(calls)) \ KnownCalls(calls)

\* request_appointment calls that carry a reason
ApptCalls(calls) ==
    {k \in KnownCalls(calls) : /\ calls[k].tool = "request_appointment"
                               /\ RequiredParam(calls[k]) \notin {NONE, ""}}

\* action calls whose required parameter is missing or empty
MissingParamCalls(calls) ==
    {k \in KnownCalls(calls) : RequiredParam(calls[k]) \in {NONE, ""}}

IsPrefix(pre, seq) == Len(pre) <= Len(seq) /\ SubSeq(seq, 1, Len(pre)) = pre

\* rows of triage_chats other than the session's own row are left as they were
OtherChatsUnchanged ==
    /\ Len(triage_chats') = Len(triage_chats)
                              + (IF last_turn'.chat_id_arg = NoChatId THEN 1 ELSE 0)
    /\ \A i \in 1..Len(triage_chats) :
          i # last_turn'.chat_id => triage_chats'[i] = triage_chats[i]

\* C15: a request_appointment call for a patient without a linked hospital
\* gets a result with success = false and creates no appointment request,
\* and the turn still completes: the cleaned text is returned and the turn is
\* persisted.
C15_NoHospitalLink ==
    [][ (/\ IsTurnStep /\ TurnAdmitted'
         /\ LinksOf(PatientOf(last_turn'.user)) = {}
         /\ ApptCalls(last_turn'.tool_calls) # {})
          => /\ last_turn'.status = "200"
             /\ \A k \in ApptCalls(last_turn'.tool_calls) :
                   /\ last_turn'.tool_results[k].tool = "request_appointment"
                   /\ ~last_turn'.tool_results[k].result.success
             /\ appointment_requests' = appointment_requests
             /\ IsPrefix(ParsedReply[last_turn'.llm].cleaned, last_turn'.response)
             /\ TurnPersisted' ]_vars

\* C16: an action call whose required parameter is missing or empty gets a
\* structured result with success = false without aborting the turn, and
\* creates or changes no appointment request and no triage case.
C16_MissingParameter ==
    [][ (/\ IsTurnStep /\ TurnAdmitted'
         /\ MissingParamCalls(last_turn'.tool_calls) # {})
          => LET calls == last_turn'.tool_calls IN
             /\ last_turn'.status = "200"
             /\ \A k \in MissingParamCalls(calls) :
                   /\ last_turn'.tool_results[k].result.has_success
                   /\ ~last_turn'.tool_results[k].result.success
                   /\ last_turn'.tool_results[k].result.message # NONE
             /\ (MissingParamCalls(calls) \cup UnknownCalls(calls) = 1..Len(calls))
                   => /\ appointment_requests' = appointment_requests
                      /\ OtherChatsUnchanged ]_vars

\* C17: an unrecognized action name becomes a result entry with success =
\* false ("unknown") among the results stored with the turn, and every
\* block after it is still executed: the turn completes with one result per
\* call.
C17_UnknownAction ==
    [][ (/\ IsTurnStep /\ TurnAdmitted'
         /\ UnknownCalls(last_turn'.tool_calls) # {})
          => LET calls   == last_turn'.tool_calls
                 results == last_turn'.tool_results
             IN
             /\ last_turn'.status = "200"
             /\ Len(results) = Len(calls)
             /\ \A k \in UnknownCalls(calls) :
                   /\ results[k].tool = calls[k].tool
                   /\ ~results[k].result.success
                   /\ results[k].result.error = "Unknown tool"
             /\ TurnPersisted'
             /\ last_turn'.messages[Len(last_turn'.messages)].tool_results = results ]_vars

\* C18: the calls of a reply are executed one at a time in reply order: one
\* result per call, result i for call i, and the effects of call i are in
\* place when call i+1 runs (appointment requests are created in call order,
\* a create_triage after another one returns the case the first one wrote).
C18_InOrderExecution ==
    [][ (IsTurnStep /\ TurnAdmitted' /\ last_turn'.tool_calls # <<>>)
          => LET calls   == last_turn'.tool_calls
                 results == last_turn'.tool_results
             IN
             /\ last_turn'.status = "200"
             /\ Len(results) = Len(calls)
             /\ \A k \in 1..Len(calls) : results[k].tool = calls[k].tool
             /\ \A j, k \in 1..Len(calls) :
                   (/\ j < k /\ results[j].result.success /\ results[k].result.success
                    /\ calls[j].tool = calls[k].tool)
                     => IF calls[j].tool = "request_appointment"
                        THEN results[j].result.id < results[k].result.id
                        ELSE results[j].result.id = results[k].result.id ]_vars

\* C19: when the model reply holds no action block, no action is dispatched
\* and the full model text, unmodified, is the reply returned and the content
\* of the assistant entry stored in the log.
C19_NoBlockUnmodified ==
    [][ (/\ IsTurnStep /\ TurnAdmitted'
         /\ last_turn'.llm # <<LLM_FAILED>>
         /\ ~HasDelimiter(last_turn'.llm))
          => /\ last_turn'.status = "200"
             /\ last_turn'.tool_calls = <<>>
             /\ last_turn'.tool_results = <<>>
             /\ last_turn'.response = last_turn'.llm
             /\ TurnPersisted'
             /\ last_turn'.messages[Len(last_turn'.messages)].content = last_turn'.llm ]_vars

\* C20: when the inference call fails, the turn returns the fallback
\* sentence, dispatches no action, and appends the user entry and the
\* fallback assistant entry to the persisted log of the session.
C20_LlmFailureFallback ==
    [][ (IsTurnStep /\ TurnAdmitted' /\ last_turn'.llm = <<LLM_FAILED>>)
          => LET id     == last_turn'.chat_id
                 before == IF last_turn'.chat_id_arg = NoChatId THEN <<>>
                           ELSE triage_chats[last_turn'.chat_id_arg].messages
             IN
             /\ last_turn'.status = "200"
             /\ last_turn'.response = <<FALLBACK>>
             /\ last_turn'.tool_calls = <<>>
             /\ last_turn'.tool_results = <<>>
             /\ id \in 1..Len(triage_chats')
             /\ Len(triage_chats'[id].messages) = Len(before) + 2
             /\ SubSeq(triage_chats'[id].messages, 1, Len(before)) = before
             /\ triage_chats'[id].messages[Len(before) + 1] =
                    [role |-> "user", content |-> <<last_turn'.message>>]
             /\ triage_chats'[id].messages[Len(before) + 2].role = "assistant"
             /\ triage_chats'[id].messages[Len(before) + 2].content = <<FALLBACK>> ]_vars

\* the text process_chat hands to parse_tool_calls in the latest turn
TurnText == IF last_turn.llm = <<LLM_FAILED>> THEN <<FALLBACK>> ELSE last_turn.llm

\* one annotation per result that succeeded, in result order
SuccessAnnotations(results) ==
    LET ok == SelectSeq(results, LAMBDA r : r.result.success) IN
    [i \in 1..Len(ok) |-> IF ok[i].tool = "request_appointment" THEN ANNOT_APPT
                          ELSE ANNOT_TRIAGE]

LogsOnlyGrow ==
    \A i \in 1..Len(triage_chats) :
        /\ i <= Len(triage_chats')
        /\ IsPrefix(triage_chats[i].messages, triage_chats'[i].messages)

\* the log the session of the latest turn had before that turn
LogBefore ==
    IF last_turn'.chat_id_arg = NoChatId THEN <<>>
    ELSE triage_chats[last_turn'.chat_id_arg].messages

\* C22: for every completed turn in which action calls were extracted, the
\* assistant entry appended to the persisted log holds the calls and the
\* results of exactly that turn; later turns never discard or alter entries.
C22_Audit ==
    [][ /\ (IsTurnStep /\ last_turn'.status = "200" /\ last_turn'.tool_calls # <<>>)
           => LET log == triage_chats'[last_turn'.chat_id].messages IN
              /\ Len(log) = Len(LogBefore) + 2
              /\ log[Len(log)].role = "assistant"
              /\ log[Len(log)].tool_calls = last_turn'.tool_calls
              /\ log[Len(log)].tool_results = last_turn'.tool_results
        /\ LogsOnlyGrow ]_vars

\* C23: every completed turn makes the persisted log of its session equal to
\* the previous persisted log followed by the user entry and then the
\* assistant entry; no earlier entry of any log is removed, reordered or
\* changed.
C23_AppendOnlyLog ==
    [][ /\ (IsTurnStep /\ last_turn'.status = "200")
           => LET log == triage_chats'[last_turn'.chat_id].messages IN
              /\ Len(log) = Len(LogBefore) + 2
              /\ SubSeq(log, 1, Len(LogBefore)) = LogBefore
              /\ log[Len(log) - 1] = [role |-> "user", content |-> <<last_turn'.message>>]
              /\ log[Len(log)].role = "assistant"
              /\ log[Len(log)].content = last_turn'.response
        /\ LogsOnlyGrow ]_vars

\* C25: a request_appointment call with a reason, for a patient with a linked
\* hospital, creates exactly one appointment request with status PENDING for
\* that patient against a hospital the patient is linked to and returns
\* success with the id of that request; an unrecognised urgency value is
\* stored as NORMAL.  Stated for replies whose other calls cannot raise.
C25_AppointmentCreated ==
    [][ (/\ IsTurnStep /\ TurnAdmitted'
         /\ LinksOf(PatientOf(last_turn'.user)) # {}
         /\ ApptCalls(last_turn'.tool_calls) # {}
         /\ ApptCalls(last_turn'.tool_calls) \cup UnknownCalls(last_turn'.tool_calls)
               = 1..Len(last_turn'.tool_calls))
          => LET calls   == last_turn'.tool_calls
                 results == last_turn'.tool_results
                 patient == PatientOf(last_turn'.user)
             IN
             /\ last_turn'.status = "200"
             /\ Len(appointment_requests') =
                    Len(appointment_requests) + Cardinality(ApptCalls(calls))
             /\ \A j, k \in ApptCalls(calls) :
                   j # k => results[j].result.id # results[k].result.id
             /\ \A k \in ApptCalls(calls) :
                   /\ results[k].result.success
                   /\ results[k].result.id \in
                         (Len(appointment_requests) + 1)..Len(appointment_requests')
                   /\ LET row == appointment_requests'[results[k].result.id] IN
                      /\ row.patient_id = patient
                      /\ row.hospital_id \in LinksOf(patient)
                      /\ row.status = "PENDING"
                      /\ row.reason = calls[k].parameters.reason
                      /\ row.urgency = IF calls[k].parameters.urgency \in {"low", "urgent"}
                                       THEN urgency_map(calls[k].parameters.urgency)
                                       ELSE "NORMAL" ]_vars

\* C27: a session is created exactly by a completed turn that carried no
\* session id; its title is the first user message cut to 50 characters, with
\* "..." appended when the message is longer, and no later turn changes it.
C27_LazySessionAndTitle ==
    [][ IsTurnStep
          => /\ Len(triage_chats') =
                   Len(triage_chats)
                     + (IF last_turn'.status = "200" /\ last_turn'.chat_id_arg = NoChatId
                        THEN 1 ELSE 0)
             /\ \A i \in 1..Len(triage_chats) : triage_chats'[i].title = triage_chats[i].title
             /\ \A i \in (Len(triage_chats) + 1)..Len(triage_chats') :
                   LET title == triage_chats'[i].title
                       len   == MsgLen(last_turn'.message)
                   IN  /\ i = last_turn'.chat_id
                       /\ triage_chats'[i].patient_id = PatientOf(last_turn'.user)
                       /\ title.of = last_turn'.message
                       /\ title.chars = IF len > 50 THEN 50 ELSE len
                       /\ title.dots = (len > 50) ]_vars

\* a session titled from a message longer than 50 characters, after a later
\* turn of the same session with another message
C27_Witness ==
    /\ turn_no = 2 /\ last_turn.status = "200"
    /\ last_turn.chat_id_arg = 1 /\ last_turn.message = "hi"
    /\ Len(triage_chats) = 1
    /\ triage_chats[1].title.of = "long"
    /\ triage_chats[1].title.chars = 50 /\ triage_chats[1].title.dots

C29_SessionOwnership ==
    [][ IsTurnStep
          => LET patient == PatientOf(last_turn'.user)
                 id      == last_turn'.chat_id_arg
             IN
             /\ (/\ patient # NONE /\ id # NoChatId
                 /\ ~(id \in 1..Len(triage_chats) /\ triage_chats[id].patient_id = patient))
                   => /\ last_turn'.status = "400"
                      /\ last_turn'.exception = "Chat not found"
                      /\ last_turn'.llm_messages = <<>>
                      /\ last_turn'.tool_calls = <<>> /\ last_turn'.tool_results = <<>>
                      /\ triage_chats' = triage_chats
                      /\ appointment_requests' = appointment_requests
             /\ \A i \in 1..Len(triage_chats') :
                   (i > Len(triage_chats) \/ triage_chats'[i].messages # triage_chats[i].messages)
                     => /\ triage_chats'[i].patient_id = patient
                        /\ \A k \in 1..Len(triage_chats'[i].messages) :
                              triage_chats'[i].messages[k].role = "user"
                                => triage_chats'[i].messages[k].content = <<last_turn'.message>>
        ]_vars

\* the second patient named the session the first patient had created
C29_Witness ==
    /\ turn_no = 2
    /\ last_turn.user = "u2" /\ last_turn.chat_id_arg = 1
    /\ Len(triage_chats) = 1 /\ triage_chats[1].patient_id = "p1"
    /\ last_turn.status = "400" /\ last_turn.exception = "Chat not found"
    /\ last_turn.llm_messages = <<>>

\* C26: the sequence sent to the inference client is one system message,
\* then the most recent prior entries of the log in log order, at most 9 of
\* them, then the new user message, which occurs once.
C26_ContextAssembly ==
    ctx.pc = "sent"
        => LET n == Len(ctx.log)
               w == IF n > 9 THEN 9 ELSE n
           IN
           /\ Len(ctx.sent) = w + 2
           /\ ctx.sent[1].role = "system"
           /\ \A i \in 2..Len(ctx.sent) : ctx.sent[i].role # "system"
           /\ \A i \in 1..w :
                 ctx.sent[1 + i] = [role    |-> ctx.log[n - w + i].role,
                                    content |-> ctx.log[n - w + i].content]
           /\ ctx.sent[w + 2] = [role |-> "user", content |-> <<ctx.message>>]

\* a log of more than nine entries, of which the last nine were sent
C26_Witness ==
    /\ ctx.pc = "sent"
    /\ Len(ctx.log) > 9
    /\ Len(ctx.sent) = 11
    /\ ctx.sent[2].content = ctx.log[Len(ctx.log) - 8].content

\* a step in which request r loads the row
LoadStepOf(r) == inflight[r].pc = "idle" /\ inflight'[r].pc # "idle"

\* a step in which request r returns after its speech call
FinishStepOf(r) == inflight[r].pc = "loaded" /\ inflight'[r].pc = "done"

\* C24: no single-flight guard. A request that loads a row without the text
\* it wants goes on to the external calls whatever the other requests are
\* doing, and a request whose speech call succeeds has issued that call
\* itself and returns text from it, not from the cache.
C24_NoSingleFlight ==
    [][\A r \in RequestIds :
        /\ (/\ LoadStepOf(r)
            /\ ~IsCacheHit(inflight'[r].override_language,
                           TargetLanguage(inflight'[r].view_language, NONE),
                           transcripts))
               => inflight'[r].pc = "loaded"
        /\ (FinishStepOf(r) /\ inflight'[r].result.error = NONE)
               => /\ speech_count' = speech_count + 1
                  /\ inflight'[r].calls[1].svc = "speech"
                  /\ inflight'[r].result.cached = FALSE
                  /\ inflight'[r].result.text.call = speech_count'
                  /\ \A k \in DOMAIN transcripts' : transcripts'[k].call = speech_count'
      ]_vars

\* two requests that both loaded the message with an empty map have both
\* returned text, each after its own speech call and three translation calls
C24_Witness ==
    /\ \A r \in {1, 2} :
          /\ inflight[r].pc = "done"
          /\ inflight[r].map = EmptyMap
          /\ inflight[r].result.error = NONE
          /\ inflight[r].result.cached = FALSE
          /\ Len(inflight[r].calls) = 4
          /\ inflight[r].calls[1].svc = "speech"
    /\ inflight[1].view_language = inflight[2].view_language
    /\ inflight[1].override_language = inflight[2].override_language
    /\ speech_count = 2

\* C30: whenever the map is non-empty, the text under the key equal to
\* original_language is a speech transcript obtained for that language, and
\* every other key holds a translation of, or the fallback to, that same
\* transcript.
C30_OriginKeyConsistency ==
    transcripts # EmptyMap
        => /\ original_language \in DOMAIN transcripts
           /\ transcripts[original_language].spoken = original_language
           /\ transcripts[original_language].into = "origin"
           /\ \A k \in DOMAIN transcripts :
                 /\ transcripts[k].call = transcripts[original_language].call
                 /\ transcripts[k].spoken = original_language
                 /\ transcripts[k].into \in {k, "origin"}

====
